---- MODULE Spec2Model ----
(***************************************************************************)
(* DataMagic (src/script.py): a Streamlit script that keeps an uploaded    *)
(* CSV table in the session state (df_original), a working copy            *)
(* (df_transformed) and a transformation log (transformations), and that   *)
(* executes one statement produced by a generative service on the working  *)
(* copy.  Every user interaction re-runs the whole script; each action of   *)
(* this module is one complete script run.                                 *)
(*                                                                         *)
(* Python values live in a heap of objects addressed by references, so     *)
(* that in-place mutation and aliasing are visible.                        *)
(***************************************************************************)
EXTENDS Integers, Sequences, FiniteSets, TLC

VARIABLES
    uploaded_file,    \* the uploader widget's value (line 44)
    file_id,          \* st.session_state.file_id
    df_original,      \* st.session_state.df_original: a reference, NoRef when the key is absent
    df_transformed,   \* st.session_state.df_transformed: a reference
    transformations,  \* st.session_state.transformations
    heap,             \* the Python objects the session state refers to
    reply,            \* what the service did with the latest prompt: <<>> when none was sent
    last              \* what the latest script run did and showed

vars == <<uploaded_file, file_id, df_original, df_transformed, transformations, heap,
          reply, last>>

----------------------------------------------------------------------------
(* Bounds of the model *)

MaxRows == 2   \* most rows of a table
MaxLog == 2    \* most entries of the transformation log
MaxText == 7   \* most tokens of a response text

----------------------------------------------------------------------------
(* Python objects *)

NoRef == 0
Refs == 1..3

FreeObj == [kind |-> "free", rows |-> <<>>, hasX |-> FALSE]
NoneObj == [kind |-> "NoneType", rows |-> <<>>, hasX |-> FALSE]

\* A DataFrame: its rows (one cell per row: 1 when age >= 18, 0 when not)
\* and whether the derived column x exists.
DataFrame(rows, hasX) == [kind |-> "DataFrame", rows |-> rows, hasX |-> hasX]

\* A plain Python list of rows.
ListObj(rows) == [kind |-> "list", rows |-> rows, hasX |-> FALSE]

IsDataFrame(o) == o.kind = "DataFrame"

\* len(o) is defined for a DataFrame and a list; len(None) raises TypeError.
HasLen(o) == o.kind \in {"DataFrame", "list"}
PyLen(o) == Len(o.rows)

\* The lowest free reference: where a newly created object is put.
Alloc(H) == CHOOSE r \in Refs : H[r] = FreeObj /\ \A q \in Refs : q < r => H[q] /= FreeObj

\* DataFrame.copy(): a new object with the same content.
AliasCopy(H, r) == [heap |-> H, ref |-> r]
Copy(H, r) == LET n == Alloc(H) IN [heap |-> [H EXCEPT ![n] = H[r]], ref |-> n]

----------------------------------------------------------------------------
(* Text of the generative service's response.  A text is a sequence of     *)
(* tokens: a backtick, a blank, the word python, or a whole statement.     *)

Min(a, b) == IF a < b THEN a ELSE b

S_FILTER == "df=df[df.age>=18]"
S_DROP == "df.drop(df[df.age<18].index,inplace=True)"
S_ADDCOL == "df['x']=1"
S_CONCAT == "df=pd.concat([df,df.head(1)])"
S_KEYERR == "df['nosuch']"
S_DROP_RAISE == "df.drop(df[df.age<18].index,inplace=True);df['nosuch']"
S_DROP_NONE == "df=df.drop(df[df.age<18].index,inplace=True)"
S_TOLIST == "df=df.values.tolist()"
S_HEAD == "df.head()"
S_DEL == "del df"
S_REBIND_RAISE == "df=df.head(1);df['nosuch']"

Statements == {S_FILTER, S_DROP, S_ADDCOL, S_CONCAT, S_KEYERR, S_DROP_RAISE,
               S_DROP_NONE, S_TOLIST, S_HEAD, S_DEL, S_REBIND_RAISE}

Whitespace == {" "}
Backtick == "BACKTICK"
Fence == <<Backtick, Backtick, Backtick>>
FencePython == <<Backtick, Backtick, Backtick, "python">>

\* str.strip(): drops leading and trailing whitespace.
RECURSIVE LStrip(_)
LStrip(s) == IF s /= <<>> /\ Head(s) \in Whitespace THEN LStrip(Tail(s)) ELSE s

RECURSIVE RStrip(_)
RStrip(s) == IF s /= <<>> /\ s[Len(s)] \in Whitespace
             THEN RStrip(SubSeq(s, 1, Len(s) - 1)) ELSE s

Strip(s) == RStrip(LStrip(s))

\* str.replace(old, ""): removes the occurrences of old, scanning from the
\* left, without overlap.
RECURSIVE Remove(_, _)
Remove(s, old) ==
    IF Len(s) < Len(old) THEN s
    ELSE IF SubSeq(s, 1, Len(old)) = old
         THEN Remove(SubSeq(s, Len(old) + 1, Len(s)), old)
         ELSE <<Head(s)>> \o Remove(Tail(s), old)

\* The value get_ai_command returns: None, or a string.
PyNone == [none |-> TRUE, text |-> <<>>]
PyStr(t) == [none |-> FALSE, text |-> t]

\* Python truth of that value: None and "" are false.
Truthy(v) == ~v.none /\ v.text /= <<>>

\* The prompt built from the instruction and the data sample (lines 20-30).
Prompt(user_query, df_head) == [query |-> user_query, head |-> df_head]

\* get_ai_command (lines 18-36).  response is what model.generate_content
\* does with the prompt: it raises, or it answers with a text.
ErrorTextOnFailure(response) ==
    IF response.raises
    THEN PyStr(<<"Error calling Google Gemini API">>)
    ELSE PyStr(Strip(Remove(Remove(Strip(response.text), FencePython), Fence)))
NoFinalStrip(response) ==
    IF response.raises
    THEN PyNone
    ELSE PyStr(Remove(Remove(Strip(response.text), FencePython), Fence))
get_ai_command(response) ==
    IF response.raises
    THEN PyNone
    ELSE PyStr(Strip(Remove(Remove(Strip(response.text), FencePython), Fence)))

----------------------------------------------------------------------------
(* exec(ai_code, exec_scope): what each statement does to the object bound *)
(* to df and to the binding itself.  The result is the heap after the       *)
(* statement, the reference bound to df in the scope afterwards (NoRef when *)
(* the name was deleted) and whether the statement raised.                  *)

Adults(rows) == SelectSeq(rows, LAMBDA v : v = 1)
Head1(rows) == SubSeq(rows, 1, Min(1, Len(rows)))

Raised(H, r) == [heap |-> H, df |-> r, raised |-> TRUE]
Done(H, r) == [heap |-> H, df |-> r, raised |-> FALSE]

\* A new object o bound to df.
Rebind(H, o) == LET n == Alloc(H) IN Done([H EXCEPT ![n] = o], n)

Exec(H, r, code) ==
    IF ~(Len(code) = 1 /\ code[1] \in Statements)
    THEN Raised(H, r)                                        \* SyntaxError
    ELSE LET stmt == code[1]
             o == H[r]
             dropped == [H EXCEPT ![r] = DataFrame(Adults(o.rows), o.hasX)]
         IN  IF stmt = S_DEL THEN Done(H, NoRef)
             ELSE IF ~IsDataFrame(o) THEN Raised(H, r)       \* TypeError, AttributeError
             ELSE CASE stmt = S_FILTER -> Rebind(H, DataFrame(Adults(o.rows), o.hasX))
                    [] stmt = S_DROP -> Done(dropped, r)
                    [] stmt = S_ADDCOL -> Done([H EXCEPT ![r] = DataFrame(o.rows, TRUE)], r)
                    [] stmt = S_CONCAT -> Rebind(H, DataFrame(o.rows \o Head1(o.rows), o.hasX))
                    [] stmt = S_KEYERR -> Raised(H, r)
                    [] stmt = S_DROP_RAISE -> Raised(dropped, r)
                    [] stmt = S_DROP_NONE -> Rebind(dropped, NoneObj)
                    [] stmt = S_TOLIST -> Rebind(H, ListObj(o.rows))
                    [] stmt = S_HEAD -> Done(H, r)
                    [] stmt = S_REBIND_RAISE ->
                         LET b == Rebind(H, DataFrame(Head1(o.rows), o.hasX))
                         IN  Raised(b.heap, b.df)

----------------------------------------------------------------------------
(* The session state and the parts of one script run *)

\* The session state as one value: st.session_state plus the objects it refers to.
State == [file_id |-> file_id, df_original |-> df_original,
          df_transformed |-> df_transformed,
          transformations |-> transformations, heap |-> heap]

\* Reference counting: an object no session key refers to is freed.
Collect(S) ==
    [S EXCEPT !.heap = [r \in Refs |->
        IF r \in {S.df_original, S.df_transformed} THEN S.heap[r] ELSE FreeObj]]

\* The addresses of the objects are not observable: at the end of a run the
\* state is written with df_original at the first reference and
\* df_transformed at the second (at the first too when both are one object).
Relocate(S) ==
    IF S.df_original = NoRef \/ S.df_transformed = NoRef
    THEN S
    ELSE LET o == S.heap[S.df_original]
             w == S.heap[S.df_transformed]
             t == IF S.df_transformed = S.df_original THEN 1 ELSE 2
         IN  [S EXCEPT !.df_original = 1, !.df_transformed = t,
                       !.heap = [r \in Refs |->
                           IF r = 1 THEN o ELSE IF r = t THEN w ELSE FreeObj]]

\* The uploader's value: no file, or a file with a name and raw content.
NoFile == [name |-> "", data |-> [wellFormed |-> TRUE, rows |-> <<>>]]

\* pd.read_csv: a new DataFrame with the rows of the text, and no derived column.
read_csv(H, data) ==
    LET n == Alloc(H) IN [heap |-> [H EXCEPT ![n] = DataFrame(data.rows, FALSE)], ref |-> n]

\* Lines 50-51 and 95-96: the working dataset becomes the copy c of the
\* original and the log is emptied.
StoreCopy(S, c) ==
    Collect([S EXCEPT !.heap = c.heap, !.df_transformed = c.ref, !.transformations = <<>>])

\* Line 49: the parsed table a becomes the original; lines 50-51 follow.
StoreParsed(S, a) == Collect([S EXCEPT !.heap = a.heap, !.df_original = a.ref])
Initialise(S) == StoreCopy(S, Copy(S.heap, S.df_original))

\* The condition of line 47.
NoStateOnly(S, uf) == S.df_original = NoRef
NeedsInit(S, uf) == S.df_original = NoRef \/ S.file_id /= uf.name

\* Lines 47-51.  crash names the call that raised and ended the run.
InitBlock(S, uf) ==
    IF ~NeedsInit(S, uf)
    THEN [state |-> S, init |-> FALSE, crash |-> "none"]
    ELSE IF ~uf.data.wellFormed
         THEN [state |-> [S EXCEPT !.file_id = uf.name], init |-> FALSE, crash |-> "read_csv"]
         ELSE [state |-> Initialise(StoreParsed([S EXCEPT !.file_id = uf.name],
                                                read_csv(S.heap, uf.data))),
               init |-> TRUE, crash |-> "none"]

\* df_original.head().to_dict(): the first five rows (line 62).
HeadRows == 5
Sample(o) == [rows |-> SubSeq(o.rows, 1, Min(HeadRows, Len(o.rows))), hasX |-> o.hasX]

\* The table the sample is taken from (line 62).
SampleFromWorking(S) == S.heap[S.df_transformed]
SampleSource(S) == S.heap[S.df_original]

\* if user_command: (line 61)
AnyCommand(user_command) == TRUE
HasCommand(user_command) == user_command /= ""

\* Lines 78-82.
StepFromZero(log) == Len(log)
Step(log) == Len(log) + 1

RowsAfterOnly(rows_after, rows_before) == rows_after
RowsBeforeMinusAfter(rows_after, rows_before) == rows_before - rows_after
RowsAffected(rows_after, rows_before) == rows_after - rows_before

LogEntry(log, user_command, rows_after, rows_before) ==
    [step |-> Step(log), description |-> user_command,
     rows_affected |-> RowsAffected(rows_after, rows_before)]

\* What a handler reports besides the state it leaves.
\* exec tells how the statement ended: "raised", or the binding of df it
\* left: "rebound" to another object, "kept", or "deleted".
Quiet(S) == [state |-> S, msg |-> "none", translator |-> FALSE,
             prompt |-> Prompt("", Sample(FreeObj)), service |-> "none",
             ai_code |-> PyNone, executor |-> FALSE, exec |-> "none",
             replaced |-> FALSE, appended |-> FALSE]

\* How the service behaved, as the translator sees it.
Service(response) ==
    IF response.raises THEN "raised"
    ELSE IF response.text = <<>> THEN "empty" ELSE "text"

Ending(e, old) ==
    IF e.raised THEN "raised"
    ELSE IF e.df = NoRef THEN "deleted"
    ELSE IF e.df = old THEN "kept" ELSE "rebound"

\* exec_scope['df'] (line 74): KeyError when the statement deleted the name.
ScopeDfOrNone(e) == IF e.df = NoRef THEN Rebind(e.heap, NoneObj) ELSE e
ScopeDf(e) == IF e.df = NoRef THEN Raised(e.heap, NoRef) ELSE e

\* Lines 76-84: the row count of the stored value W is taken, the entry
\* appended.  S1 is the state with the value stored.
Record(S1, W, user_command, rows_before, R) ==
    IF ~HasLen(W)                                             \* line 76 raises
    THEN [R EXCEPT !.state = S1, !.msg = "error", !.replaced = TRUE]
    ELSE [R EXCEPT
            !.state = [S1 EXCEPT !.transformations =
                Append(S1.transformations,
                       LogEntry(S1.transformations, user_command, PyLen(W), rows_before))],
            !.msg = "success", !.replaced = TRUE, !.appended = TRUE]

\* Line 74: the value e.df of the scope is stored as the working dataset.
Store(S, e) == Collect([S EXCEPT !.heap = e.heap, !.df_transformed = e.df])
StoreAndRecord(S1, user_command, rows_before, R) ==
    Record(S1, S1.heap[S1.df_transformed], user_command, rows_before, R)

\* Lines 73-84, with e what exec and the lookup of df in the scope gave.
AfterExec(S, e, user_command, rows_before, R) ==
    IF e.raised                                               \* line 73 or line 74 raises
    THEN [R EXCEPT !.state = Collect([S EXCEPT !.heap = e.heap]), !.msg = "error"]
    ELSE StoreAndRecord(Store(S, e), user_command, rows_before, R)

Lookup(x) == IF x.raised THEN x ELSE ScopeDf(x)
RunStatement(S, x, user_command, R) ==
    AfterExec(S, Lookup(x), user_command, PyLen(S.heap[S.df_transformed]),
              [R EXCEPT !.executor = TRUE, !.exec = Ending(x, S.df_transformed)])

\* Lines 69-87: the try block around exec.
Execute(S, user_command, ai_code, R) ==
    IF ~HasLen(S.heap[S.df_transformed])
    THEN [R EXCEPT !.msg = "error"]                           \* line 70 raises
    ELSE RunStatement(S, Exec(S.heap, S.df_transformed, ai_code.text), user_command, R)

\* Lines 63-89, with ai_code what get_ai_command returned.
Translated(S, user_command, ai_code, R) ==
    IF ~Truthy(ai_code)
    THEN [R EXCEPT !.ai_code = ai_code, !.msg = "warning: could not generate"]
    ELSE Execute(S, user_command, ai_code, [R EXCEPT !.ai_code = ai_code])

\* Lines 60-91: the Apply Changes button.
ApplyHandler(S, user_command, response) ==
    IF ~HasCommand(user_command)
    THEN [Quiet(S) EXCEPT !.msg = "warning: enter a command"]
    ELSE Translated(S, user_command, get_ai_command(response),
                    [Quiet(S) EXCEPT
                        !.translator = TRUE, !.service = Service(response),
                        !.prompt = Prompt(user_command, Sample(SampleSource(S)))])

\* Lines 94-97: the Reset Data button.
ResetKeepsLog(S) ==
    [Quiet(S) EXCEPT !.state = Store(S, [heap |-> Copy(S.heap, S.df_original).heap,
                                         df |-> Copy(S.heap, S.df_original).ref]),
                     !.msg = "reset"]
ResetHandler(S) ==
    [Quiet(S) EXCEPT !.state = StoreCopy(S, Copy(S.heap, S.df_original)), !.msg = "reset"]

\* Lines 105-140: the metrics and the two tables.  len raises on a value
\* without a length (line 109); to_csv exists on a DataFrame only (line 140).
Summary(S) ==
    LET o == S.heap[S.df_original]
        w == S.heap[S.df_transformed]
    IN  IF ~(HasLen(o) /\ HasLen(w))
        THEN [crash |-> "len", count |-> Len(S.transformations), rows |-> 0, delta |-> 0]
        ELSE [crash |-> IF IsDataFrame(w) THEN "none" ELSE "to_csv",
              count |-> Len(S.transformations),
              rows |-> PyLen(w), delta |-> PyLen(w) - PyLen(o)]

----------------------------------------------------------------------------
(* One script run, top to bottom *)

\* What a run that stops before the controls reports.
NoRun == [action |-> "none", user_command |-> "", init |-> FALSE, crash |-> "none",
          controls |-> FALSE, msg |-> "none", translator |-> FALSE,
          prompt |-> Prompt("", Sample(FreeObj)), service |-> "none",
          ai_code |-> PyNone, executor |-> FALSE, exec |-> "none",
          replaced |-> FALSE, appended |-> FALSE,
          count |-> 0, rows |-> 0, delta |-> 0]

\* The report of a run that reached the controls: i is what the init block
\* did, h what the handler did, m what the summary and display did.
Report(base, i, h, m) ==
    [base EXCEPT
        !.init = i.init, !.crash = m.crash, !.controls = TRUE,
        !.msg = h.msg, !.translator = h.translator, !.prompt = h.prompt,
        !.service = h.service, !.exec = h.exec,
        !.ai_code = h.ai_code, !.executor = h.executor,
        !.replaced = h.replaced, !.appended = h.appended,
        !.count = m.count, !.rows = m.rows, !.delta = m.delta]

\* Lines 99-146 after the handler h.
Finish(base, i, h) ==
    [state |-> Relocate(h.state), report |-> Report(base, i, h, Summary(h.state))]

\* Lines 53-97: the button pressed, if any.
Handler(S, button, user_command, response) ==
    CASE button = "apply" -> ApplyHandler(S, user_command, response)
      [] button = "reset" -> ResetHandler(S)
      [] OTHER -> Quiet(S)

\* Lines 46-146 after the init block i.
Continue(base, i, button, user_command, response) ==
    IF i.crash /= "none"
    THEN [state |-> Relocate(i.state), report |-> [base EXCEPT !.crash = i.crash]]
    ELSE Finish(base, i, Handler(i.state, button, user_command, response))

\* The script with uploader value uf, the button pressed (if any), the text
\* input's value and the service's behaviour.  The result is the session
\* state the run leaves and the report of the run.
Script(S, uf, button, user_command, response) ==
    IF uf = NoFile
    THEN [state |-> S,                                         \* lines 147-148
          report |-> [NoRun EXCEPT !.action = button, !.user_command = user_command]]
    ELSE Continue([NoRun EXCEPT !.action = button, !.user_command = user_command],
                  InitBlock(S, uf), button, user_command, response)

----------------
(* Inputs *)

File(name, wellFormed, rows) ==
    [name |-> name, data |-> [wellFormed |-> wellFormed, rows |-> rows]]
Files == {File("a.csv", TRUE, <<0, 1>>), File("a.csv", TRUE, <<1>>),
          File("b.csv", TRUE, <<1, 0>>), File("b.csv", FALSE, <<>>)}

ServiceError == [raises |-> TRUE, text |-> <<>>]
Answer(t) == [raises |-> FALSE, text |-> t]
Fenced(t) == FencePython \o <<" ">> \o t \o <<" ">> \o Fence

\* The instructions typed into the text input, and for each the ways the
\* service is taken to behave: it fails, answers nothing, answers a
\* statement (fenced or not), or answers text that is no statement.
I_EMPTY == ""
I_DROP == "drop rows where age is less than 18"
I_ADD == "add a column x"

DropResponses ==
    {ServiceError, Answer(<<>>), Answer(Fenced(<<>>)), Answer(Fenced(<<S_FILTER>>)),
     Answer(<<"python", S_DROP>>)}
    \cup {Answer(<<s>>) : s \in {S_FILTER, S_DROP, S_DROP_RAISE, S_DROP_NONE,
                                 S_DEL, S_REBIND_RAISE}}
AddResponses ==
    {ServiceError}
    \cup {Answer(<<s>>) : s \in {S_ADDCOL, S_CONCAT, S_KEYERR, S_TOLIST, S_HEAD}}

Requests ==
    {<<I_EMPTY, ServiceError>>}
    \cup {<<I_DROP, r>> : r \in DropResponses}
    \cup {<<I_ADD, r>> : r \in AddResponses}

\* The model keeps tables and the log within the bounds.
WithinBounds(S) ==
    /\ Len(S.transformations) <= MaxLog
    /\ \A r \in Refs : Len(S.heap[r].rows) <= MaxRows

----------------------------------------------------------------------------
(* The state machine *)

Init ==
    /\ uploaded_file = NoFile
    /\ file_id = ""
    /\ df_original = NoRef
    /\ df_transformed = NoRef
    /\ transformations = <<>>
    /\ heap = [r \in Refs |-> FreeObj]
    /\ reply = <<>>
    /\ last = NoRun

\* The run leaves state and report r.
Leaves(r) ==
    /\ WithinBounds(r.state)
    /\ file_id' = r.state.file_id
    /\ df_original' = r.state.df_original
    /\ df_transformed' = r.state.df_transformed
    /\ transformations' = r.state.transformations
    /\ heap' = r.state.heap
    /\ last' = r.report

\* The user puts a file into the uploader.
UploadFile(f) ==
    /\ uploaded_file' = f
    /\ Leaves(Script(State, f, "upload", "", ServiceError))
    /\ reply' = <<>>

\* The user takes the file out of the uploader.
RemoveFile ==
    /\ uploaded_file /= NoFile
    /\ uploaded_file' = NoFile
    /\ Leaves(Script(State, NoFile, "remove", "", ServiceError))
    /\ reply' = <<>>

\* The script runs again with nothing pressed.
Rerun ==
    /\ uploaded_file' = uploaded_file
    /\ Leaves(Script(State, uploaded_file, "rerun", "", ServiceError))
    /\ reply' = <<>>

\* The user presses Apply Changes.
ApplyChanges(user_command, response) ==
    /\ last.controls
    /\ uploaded_file' = uploaded_file
    /\ Leaves(Script(State, uploaded_file, "apply", user_command, response))
    /\ reply' = IF last'.translator THEN <<response>> ELSE <<>>

\* The user presses Reset Data.
ResetData ==
    /\ last.controls
    /\ uploaded_file' = uploaded_file
    /\ Leaves(Script(State, uploaded_file, "reset", "", ServiceError))
    /\ reply' = <<>>

Next ==
    \/ \E f \in Files : UploadFile(f)
    \/ RemoveFile
    \/ Rerun
    \/ \E q \in Requests : ApplyChanges(q[1], q[2])
    \/ ResetData

Spec == Init /\ [][Next]_vars

----------------------------------------------------------------------------
(* The translator alone, on every response text of at most MaxText tokens *)

Alphabet == {Backtick, " ", "python", S_HEAD}
Texts == UNION {[1..k -> Alphabet] : k \in 0..MaxText}

InitText ==
    /\ uploaded_file = NoFile
    /\ file_id = ""
    /\ df_original = NoRef
    /\ df_transformed = NoRef
    /\ transformations = <<>>
    /\ heap = [r \in Refs |-> FreeObj]
    /\ reply \in {<<ServiceError>>} \cup {<<Answer(t)>> : t \in Texts}
    /\ last = NoRun

\* get_ai_command is called and returns (lines 32-36).
Translate ==
    /\ last.action = "none"
    /\ last' = [NoRun EXCEPT !.action = "translate", !.translator = TRUE,
                             !.service = Service(reply[1]),
                             !.ai_code = get_ai_command(reply[1])]
    /\ UNCHANGED <<uploaded_file, file_id, df_original, df_transformed,
                   transformations, heap, reply>>

NextText == Translate

SpecText == InitText /\ [][NextText]_vars

----------------------------------------------------------------------------
(* Views of the state used by the properties *)

Loaded == df_original /= NoRef
Original == heap[df_original]
Working == heap[df_transformed]
LastEntry(log) == log[Len(log)]

\* The session state as the user can observe it: contents, not addresses.
Observable == <<file_id, Original, Working, transformations>>

----------------------------------------------------------------------------
(* Properties *)

\* C1: once a file is loaded, every run that does not (re)initialise the
\* session (apply runs that succeed or fail, in-place mutation of df
\* included, reset runs, reruns) leaves the content of df_original as it was.
C1_OriginalNeverMutated ==
    [][(Loaded /\ ~last'.init) => (Loaded' /\ Original' = Original)]_vars

\* An apply that mutated df in place succeeded and the original kept its rows.
C1_Witness ==
    /\ last.action = "apply" /\ last.msg = "success" /\ last.exec = "kept"
    /\ last.ai_code.text = <<S_DROP>>
    /\ Working /= Original

\* C2: an apply run whose statement fails (error surfaced) leaves the working
\* dataset and the log as they were before the run.
C2_FailedApplyChangesNothing ==
    [][(last'.action = "apply" /\ last'.msg = "error")
        => (Working' = Working /\ transformations' = transformations)]_vars

\* C3: a reset run, from any state, leaves df_original as it was, the working
\* dataset content-equal to it and the log empty; so a reset right after a
\* reset changes nothing.
C3_ResetRestores ==
    [][last'.action = "reset"
        => /\ Loaded /\ Loaded'
           /\ Original' = Original
           /\ Working' = Original
           /\ transformations' = <<>>
           /\ file_id' = file_id
           /\ (last.action = "reset" => Observable' = Observable)]_vars

\* A reset has run and the working dataset equals the original, the log is empty.
C3_Witness ==
    /\ last.action = "reset" /\ last.msg = "reset"
    /\ Working = Original /\ transformations = <<>>

\* C4: the i-th entry of the log has step number i.
C4_StepsAreSequential ==
    \A i \in 1..Len(transformations) : transformations[i].step = i

\* A log of two entries, the second just appended.
C4_Witness ==
    /\ Len(transformations) = 2 /\ last.action = "apply" /\ last.appended

\* C5: an apply run replaces the working dataset (line 74 assigns it) exactly
\* when it appends one entry to the log, and no other run appends.
C5_ReplacedIffLogged ==
    [][/\ last'.action = "apply"
          => /\ last'.replaced <=> Len(transformations') = Len(transformations) + 1
             /\ ~last'.replaced => transformations' = transformations
       /\ last'.action /= "apply" => Len(transformations') <= Len(transformations)]_vars

\* C6: an appended entry records the row count of the working dataset after
\* the run minus the one before it, and the instruction of the run.
C6_EntryRecordsRowDelta ==
    [][Len(transformations') > Len(transformations)
        => /\ last'.action = "apply"
           /\ transformations' = Append(transformations, LastEntry(transformations'))
           /\ LastEntry(transformations').rows_affected = PyLen(Working') - PyLen(Working)
           /\ LastEntry(transformations').description = last'.user_command]_vars

\* A second entry of -1 rows after a first entry of 0 rows.
C6_Witness ==
    /\ Len(transformations) = 2 /\ last.action = "apply" /\ last.appended
    /\ transformations[1].rows_affected = 0
    /\ transformations[2].rows_affected = -1
    /\ transformations[2].description = I_DROP

C8_EmptyInstructionIsNoOp ==
    [][(last'.action = "apply" /\ last'.user_command = I_EMPTY)
        => /\ ~last'.translator /\ ~last'.executor
           /\ last'.msg = "warning: enter a command"
           /\ Observable' = Observable]_vars

\* An apply run with the empty instruction, with one entry in the log.
C8_Witness ==
    /\ last.action = "apply" /\ last.user_command = I_EMPTY
    /\ last.msg = "warning: enter a command"
    /\ Len(transformations) = 1

\* C9: the working dataset is a table in every state with a loaded file.
C9_WorkingIsATable == Loaded => IsDataFrame(Working)

C11_InitIffNewIdentity ==
    [][uploaded_file' /= NoFile
        => (last'.init <=> (~Loaded \/ file_id /= uploaded_file'.name))]_vars

\* C11 as amended: such a run (re)initialises the session exactly when no
\* session state exists or the name differs, and the file parses; it then
\* leaves the parsed file as original, a copy of it as working dataset, an
\* empty log and the name as file_id.  A run without a button whose file has
\* the name in file_id leaves original, working dataset and log as they were.
C11_InitIffNewIdentityAndParsed ==
    [][uploaded_file' /= NoFile
        => /\ last'.init <=> /\ ~Loaded \/ file_id /= uploaded_file'.name
                             /\ uploaded_file'.data.wellFormed
           /\ last'.init
              => /\ Original' = DataFrame(uploaded_file'.data.rows, FALSE)
                 /\ Working' = Original'
                 /\ transformations' = <<>>
                 /\ file_id' = uploaded_file'.name
           /\ (Loaded /\ file_id = uploaded_file'.name
                 /\ last'.action \in {"upload", "rerun"})
              => /\ Original' = Original /\ Working' = Working
                 /\ transformations' = transformations]_vars

\* A file of the same name and other content was uploaded after a
\* transformation: the session was not initialised again and the entry is kept.
C11_Witness ==
    /\ last.action = "upload" /\ ~last.init /\ Loaded
    /\ uploaded_file.name = file_id
    /\ uploaded_file.data.rows /= Original.rows
    /\ Len(transformations) = 1 /\ Working /= Original

\* C12: the prompt of an apply run holds the instruction and the sample of
\* df_original, whatever the working dataset has become.
C12_SampleFromOriginal ==
    (last.action = "apply" /\ last.translator)
        => last.prompt = Prompt(last.user_command, Sample(Original))

\* The translator was called while the working dataset had another sample
\* than the original.
C12_Witness ==
    /\ last.action = "apply" /\ last.translator /\ last.msg = "warning: could not generate"
    /\ Len(transformations) = 1
    /\ Sample(Working) /= Sample(Original)

\* Whether the text s holds the text pat somewhere.
Contains(s, pat) ==
    \E i \in 1..(Len(s) - Len(pat) + 1) : SubSeq(s, i, i + Len(pat) - 1) = pat

\* C13: the string the translator returns for a response text holds no
\* triple backtick and neither starts nor ends with whitespace.
C13_CodeIsCleanAndTrimmed ==
    (last.action = "translate" /\ ~reply[1].raises)
        => /\ ~last.ai_code.none
           /\ ~Contains(last.ai_code.text, Fence)
           /\ last.ai_code.text /= <<>>
              => /\ Head(last.ai_code.text) \notin Whitespace
                 /\ last.ai_code.text[Len(last.ai_code.text)] \notin Whitespace

\* Two backticks, a python fence and one backtick: removing the python fence
\* leaves a fence, which the second replace removes.
C13_Witness ==
    /\ last.action = "translate"
    /\ reply = <<Answer(<<Backtick, Backtick>> \o FencePython \o <<Backtick>>)>>
    /\ last.ai_code = PyStr(<<>>)

\* C14: a run whose upload fails to parse leaves the whole session state,
\* file_id included, as it was before the run.
C14_ParseFailureChangesNothing ==
    [][last'.crash = "read_csv"
        => /\ file_id' = file_id
           /\ df_original' = df_original /\ df_transformed' = df_transformed
           /\ heap' = heap
           /\ transformations' = transformations]_vars

\* C15: an apply run goes on to the end of the script: the summary and the
\* tables are shown without an uncaught exception, the controls are drawn.
C15_ApplyRunCompletes ==
    last.action = "apply" => (last.crash = "none" /\ last.controls)

\* The sum of rows_affected over the log.
RECURSIVE SumRowsAffected(_)
SumRowsAffected(log) ==
    IF log = <<>> THEN 0 ELSE Head(log).rows_affected + SumRowsAffected(Tail(log))

\* C16: the row count of the working dataset minus the row count of the
\* original is the sum of rows_affected over the log, whenever the working
\* dataset has a row count.
C16_DeltaIsSumOfLog ==
    (Loaded /\ HasLen(Working))
        => PyLen(Working) - PyLen(Original) = SumRowsAffected(transformations)

====
